---------------------------- MODULE Spec2Model ----------------------------
(***************************************************************************)
(* Test-data factory and response validators of the test automation        *)
(* framework (tests/helpers/testData.js), modelled as a caller that issues *)
(* one call at a time and observes what the call returns or throws.        *)
(***************************************************************************)
EXTENDS Integers, Sequences, FiniteSets, TLC

VARIABLES
  now,    \* the reading Date.now() gives, in milliseconds
  op,     \* the name of the last call made
  arg,    \* the argument of the last call
  ret,    \* what the last call returned or threw
  reads,  \* the readings of Date.now() and Math.random() the last call took
  held,   \* a createUser result the caller keeps from an earlier call
  heap,   \* the objects allocated so far, by address (used where calls are
          \* given references to objects rather than their contents)
  ci,       \* process.env.CI as the test runner reads it
  tests,    \* the runner's tests: status and number of attempts started
  request,  \* the GET request of the timeout test
  flows,    \* the concurrent workflows: position, payloads sent, replies
  locals,   \* the bindings user, post, comment of the workflows, by scope
  joined    \* the promise Promise.all(workflows) returned

vars == <<now, op, arg, ret, reads, held, heap, ci, tests, request, flows,
          locals, joined>>

\* what the test files and the runner keep, apart from the helper calls
suite == <<ci, tests, request, flows, locals, joined>>

\* what the helper calls are observed through
helperCalls == <<now, op, arg, ret, reads, held, heap>>

---------------------------------------------------------------------------
(* Bounds of the model *)

\* largest finite number drawn as a field value (the smallest is -1)
MaxNum == 2
\* longest title/body string drawn
MaxTextLen == 2
\* longest email string drawn
MaxEmailLen == 5
\* last clock reading
MaxClock == 1
\* Math.random() is drawn from the grid {j / RandomDen}; the low grid points
\* 0..MaxRandomLow and the last one, RandomDen - 1, are drawn
RandomDen == 2000
MaxRandomLow == 3
\* most objects allocated where identity is followed
MaxHeap == 3
\* most objects allocated where nested objects are followed
MaxCells == 8
\* tests in the suite the runner is given
NumTests == 3
\* workers the runner starts when the configuration names none (it depends on
\* the machine)
DefaultWorkers == 3
\* last clock reading where ids generated a second or more apart are compared
MaxIdClock == 2000

---------------------------------------------------------------------------
(* JavaScript values.  A string is the sequence of its characters. *)

Chars(s) == [i \in 1..Len(s) |-> SubSeq(s, i, i)]

Undefined == [t |-> "undefined"]
Null == [t |-> "null"]
Bool(b) == [t |-> "boolean", b |-> b]
Num(n) == [t |-> "number", k |-> "finite", n |-> n]
NaN == [t |-> "number", k |-> "NaN", n |-> 0]
PosInfinity == [t |-> "number", k |-> "+Infinity", n |-> 0]
NegInfinity == [t |-> "number", k |-> "-Infinity", n |-> 0]
Str(cs) == [t |-> "string", s |-> cs]
Lit(s) == Str(Chars(s))
Obj(props) == [t |-> "object", props |-> props]
Arr(items) == [t |-> "array", items |-> items]

EmptyProps == [x \in {} |-> Undefined]

\* typeof v
TypeOf(v) ==
  IF v.t \in {"null", "object", "array"} THEN "object" ELSE v.t

\* ToBoolean(v), as in `!post`
Truthy(v) ==
  CASE v.t \in {"undefined", "null"} -> FALSE
    [] v.t = "boolean" -> v.b
    [] v.t = "number" -> v.k # "NaN" /\ ~(v.k = "finite" /\ v.n = 0)
    [] v.t = "string" -> Len(v.s) > 0
    [] OTHER -> TRUE

\* x <= 0 for a number x
LessEqZero(v) ==
  CASE v.k = "finite" -> v.n <= 0
    [] v.k = "-Infinity" -> TRUE
    [] OTHER -> FALSE

\* the decimal digits of a natural number
DigitChar(d) == SubSeq("0123456789", d + 1, d + 1)

RECURSIVE DecimalString(_)
DecimalString(n) ==
  IF n < 10 THEN DigitChar(n) ELSE DecimalString(n \div 10) \o DigitChar(n % 10)

Digits(n) == Chars(DecimalString(n))

\* Number::toString
NumberToString(v) ==
  CASE v.k = "NaN" -> Chars("NaN")
    [] v.k = "+Infinity" -> Chars("Infinity")
    [] v.k = "-Infinity" -> Chars("-Infinity")
    [] OTHER -> IF v.n < 0 THEN <<"-">> \o Digits(0 - v.n) ELSE Digits(v.n)

\* the characters of strs[1] sep strs[2] sep ... (strs are character sequences)
RECURSIVE JoinChars(_, _)
JoinChars(strs, sep) ==
  IF Len(strs) = 0 THEN <<>>
  ELSE IF Len(strs) = 1 THEN strs[1]
  ELSE strs[1] \o sep \o JoinChars(Tail(strs), sep)

\* ToString(v), the coercion RegExp.prototype.test and template literals apply
RECURSIVE JSToString(_)
JSToString(v) ==
  CASE v.t = "string" -> v.s
    [] v.t = "undefined" -> Chars("undefined")
    [] v.t = "null" -> Chars("null")
    [] v.t = "boolean" -> IF v.b THEN Chars("true") ELSE Chars("false")
    [] v.t = "number" -> NumberToString(v)
    [] v.t = "function" ->
         Chars("function ") \o Chars(v.name) \o Chars("() { [native code] }")
    [] v.t = "array" ->
         JoinChars([i \in 1..Len(v.items) |->
                      IF v.items[i].t \in {"undefined", "null"} THEN <<>>
                      ELSE JSToString(v.items[i])], <<",">>)
    [] OTHER -> Chars("[object Object]")

\* the property names an array or a string has of its own: its indices
IndexKey(i) == DecimalString(i)

\* a built-in function, and the object Object.prototype
Builtin(name) == [t |-> "function", name |-> name]
ObjectPrototype == [t |-> "object", props |-> EmptyProps, builtin |-> "Object.prototype"]

\* what every plain object inherits from Object.prototype
ObjectPrototypeKeys ==
  {"constructor", "toString", "toLocaleString", "valueOf", "hasOwnProperty",
   "isPrototypeOf", "propertyIsEnumerable", "__proto__"}

ObjectPrototypeMember(key) ==
  CASE key = "__proto__" -> ObjectPrototype
    [] key = "constructor" -> Builtin("Object")
    [] OTHER -> Builtin(key)

\* `key in v` for an object v: an own or an inherited property
In(key, v) ==
  CASE v.t = "object" -> key \in DOMAIN v.props \cup ObjectPrototypeKeys
    [] v.t = "array" ->
         key \in {IndexKey(i - 1) : i \in 1..Len(v.items)} \cup {"length"}
                   \cup ObjectPrototypeKeys

\* v[key]: the own property, else the inherited one, else undefined
Get(v, key) ==
  CASE v.t = "object" /\ key \in DOMAIN v.props -> v.props[key]
    [] v.t = "array" /\ key = "length" -> Num(Len(v.items))
    [] v.t \in {"object", "array"} /\ key \in ObjectPrototypeKeys ->
         ObjectPrototypeMember(key)
    [] OTHER -> Undefined

\* the property key a value used as `obj[v]` names
RECURSIVE ConcatChars(_)
ConcatChars(cs) == IF Len(cs) = 0 THEN "" ELSE Head(cs) \o ConcatChars(Tail(cs))

PropertyKey(v) == ConcatChars(JSToString(v))

\* 'x'.repeat(n)
Repeat(c, n) == [i \in 1..n |-> c]

\* what a call gives its caller
Return(v) == [kind |-> "return", value |-> v]
Throw(msg) == [kind |-> "throw", error |-> "Error", message |-> msg]
NoCall == [kind |-> "none"]

---------------------------------------------------------------------------
(* ResponseValidators *)

\* the characters String.prototype.trim strips and the class \s matches
WhiteSpace == {" ", "\t", "\n", "\f", "\r"}

\* cs.trim()
RECURSIVE TrimStart(_)
TrimStart(cs) ==
  IF Len(cs) > 0 /\ Head(cs) \in WhiteSpace THEN TrimStart(Tail(cs)) ELSE cs

RECURSIVE TrimEnd(_)
TrimEnd(cs) ==
  IF Len(cs) > 0 /\ cs[Len(cs)] \in WhiteSpace
  THEN TrimEnd(SubSeq(cs, 1, Len(cs) - 1)) ELSE cs

\* variant: no trimming (title === '' for title.trim() === '')
TrimNothing(cs) == cs

Trim(cs) == TrimEnd(TrimStart(cs))

\* variant: only the first missing field is reported (find for filter)
MissingFieldsFirstOnly(requiredFields, obj) ==
  LET all == SelectSeq(requiredFields, LAMBDA field : ~In(field, obj)) IN
  IF Len(all) = 0 THEN all ELSE <<Head(all)>>

\* variant: a field counts as missing when its value is undefined or null
MissingFieldsByValue(requiredFields, obj) ==
  SelectSeq(requiredFields,
            LAMBDA field : ~In(field, obj) \/ Get(obj, field) \in {Undefined, Null})

\* requiredFields.filter(field => !(field in obj))
MissingFields(requiredFields, obj) ==
  SelectSeq(requiredFields, LAMBDA field : ~In(field, obj))

\* `${prefix}${missingFields.join(', ')}`
MissingMessage(prefix, missingFields) ==
  Chars(prefix) \o
  JoinChars([i \in 1..Len(missingFields) |-> Chars(missingFields[i])], Chars(", "))

PostRequiredFields == <<"id", "userId", "title", "body">>

\* lines 123-144 of validatePost: the checks made once post is an object
validatePostFields(post) ==
  LET missingFields == MissingFields(PostRequiredFields, post) IN
    IF Len(missingFields) > 0
    THEN Throw(MissingMessage("Post missing required fields: ", missingFields))
    ELSE IF TypeOf(Get(post, "id")) # "number" \/ LessEqZero(Get(post, "id"))
    THEN Throw(Chars("Post ID must be a positive number"))
    ELSE IF TypeOf(Get(post, "userId")) # "number" \/ LessEqZero(Get(post, "userId"))
    THEN Throw(Chars("User ID must be a positive number"))
    ELSE IF TypeOf(Get(post, "title")) # "string" \/ Trim(Get(post, "title").s) = <<>>
    THEN Throw(Chars("Post title must be a non-empty string"))
    ELSE IF TypeOf(Get(post, "body")) # "string" \/ Trim(Get(post, "body").s) = <<>>
    THEN Throw(Chars("Post body must be a non-empty string"))
    ELSE Return(Undefined)

\* variant: the guard without `!post`, so that null reaches `field in post`,
\* which throws a TypeError
validatePostNullUnchecked(post) ==
  IF TypeOf(post) # "object"
  THEN Throw(Chars("Post must be an object"))
  ELSE IF post.t = "null"
  THEN [kind |-> "throw", error |-> "TypeError",
        message |-> Chars("Cannot use 'in' operator to search for 'id' in null")]
  ELSE validatePostFields(post)

validatePost(post) ==
  IF ~Truthy(post) \/ TypeOf(post) # "object"
  THEN Throw(Chars("Post must be an object"))
  ELSE validatePostFields(post)

\* /^[^\s@]+@[^\s@]+\.[^\s@]+$/ as an automaton.  Positions: 0 before the local
\* part, 1 inside it, 2 after the '@', 3 inside the domain, 4 after a '.',
\* 5 inside the last part (accepting).
EmailClass(c) == c \notin WhiteSpace /\ c # "@"

\* variant: the last part written [^\s]+, so that it admits '@'
EmailStepLastAdmitsAt(q, c) ==
  CASE q = 0 -> IF EmailClass(c) THEN {1} ELSE {}
    [] q = 1 -> (IF EmailClass(c) THEN {1} ELSE {}) \cup (IF c = "@" THEN {2} ELSE {})
    [] q = 2 -> IF EmailClass(c) THEN {3} ELSE {}
    [] q = 3 -> (IF EmailClass(c) THEN {3} ELSE {}) \cup (IF c = "." THEN {4} ELSE {})
    [] q = 4 -> IF c \notin WhiteSpace THEN {5} ELSE {}
    [] q = 5 -> IF c \notin WhiteSpace THEN {5} ELSE {}

EmailStep(q, c) ==
  CASE q = 0 -> IF EmailClass(c) THEN {1} ELSE {}
    [] q = 1 -> (IF EmailClass(c) THEN {1} ELSE {}) \cup (IF c = "@" THEN {2} ELSE {})
    [] q = 2 -> IF EmailClass(c) THEN {3} ELSE {}
    [] q = 3 -> (IF EmailClass(c) THEN {3} ELSE {}) \cup (IF c = "." THEN {4} ELSE {})
    [] q = 4 -> IF EmailClass(c) THEN {5} ELSE {}
    [] q = 5 -> IF EmailClass(c) THEN {5} ELSE {}

RECURSIVE EmailRun(_, _)
EmailRun(qs, cs) ==
  IF Len(cs) = 0 THEN qs
  ELSE EmailRun(UNION {EmailStep(q, Head(cs)) : q \in qs}, Tail(cs))

\* emailRegex.test(v)
emailRegexTest(v) == 5 \in EmailRun({0}, JSToString(v))

UserRequiredFields == <<"id", "name", "username", "email">>

\* variant: the id check of validatePost repeated in validateUser
validateUserChecksId(user) ==
  IF ~Truthy(user) \/ TypeOf(user) # "object"
  THEN Throw(Chars("User must be an object"))
  ELSE LET missingFields == MissingFields(UserRequiredFields, user) IN
    IF Len(missingFields) > 0
    THEN Throw(MissingMessage("User missing required fields: ", missingFields))
    ELSE IF TypeOf(Get(user, "id")) # "number" \/ LessEqZero(Get(user, "id"))
    THEN Throw(Chars("User ID must be a positive number"))
    ELSE IF ~emailRegexTest(Get(user, "email"))
    THEN Throw(Chars("User email must be valid format"))
    ELSE Return(Undefined)

validateUser(user) ==
  IF ~Truthy(user) \/ TypeOf(user) # "object"
  THEN Throw(Chars("User must be an object"))
  ELSE LET missingFields == MissingFields(UserRequiredFields, user) IN
    IF Len(missingFields) > 0
    THEN Throw(MissingMessage("User missing required fields: ", missingFields))
    ELSE IF ~emailRegexTest(Get(user, "email"))
    THEN Throw(Chars("User email must be valid format"))
    ELSE Return(Undefined)

CommentRequiredFields == <<"id", "postId", "name", "email", "body">>

\* variant: the email check of validateUser repeated in validateComment
validateCommentChecksEmail(comment) ==
  IF ~Truthy(comment) \/ TypeOf(comment) # "object"
  THEN Throw(Chars("Comment must be an object"))
  ELSE LET missingFields == MissingFields(CommentRequiredFields, comment) IN
    IF Len(missingFields) > 0
    THEN Throw(MissingMessage("Comment missing required fields: ", missingFields))
    ELSE IF ~emailRegexTest(Get(comment, "email"))
    THEN Throw(Chars("Comment email must be valid format"))
    ELSE Return(Undefined)

validateComment(comment) ==
  IF ~Truthy(comment) \/ TypeOf(comment) # "object"
  THEN Throw(Chars("Comment must be an object"))
  ELSE LET missingFields == MissingFields(CommentRequiredFields, comment) IN
    IF Len(missingFields) > 0
    THEN Throw(MissingMessage("Comment missing required fields: ", missingFields))
    ELSE Return(Undefined)

---------------------------------------------------------------------------
(* TestDataFactory *)

\* a parameter declared `overrides = {}`
DefaultParam(v, dflt) == IF v = Undefined THEN dflt ELSE v

\* the own enumerable properties that `...v` copies
OwnProps(v) ==
  CASE v.t = "object" -> v.props
    [] v.t = "array" ->
         [key \in {IndexKey(i - 1) : i \in 1..Len(v.items)} |->
            v.items[CHOOSE i \in 1..Len(v.items) : IndexKey(i - 1) = key]]
    [] v.t = "string" ->
         [key \in {IndexKey(i - 1) : i \in 1..Len(v.s)} |->
            Str(<<v.s[CHOOSE i \in 1..Len(v.s) : IndexKey(i - 1) = key]>>)]
    [] OTHER -> EmptyProps

\* { ...props, ...v }: a property of v replaces the one already written
Spread(props, v) ==
  LET src == OwnProps(v) IN
  [key \in DOMAIN props \cup DOMAIN src |->
     IF key \in DOMAIN src THEN src[key] ELSE props[key]]

\* the factor of Math.random() in generateId
RandomRange == 1000

\* variant: Math.round for Math.floor
generateIdRound(clock, random) ==
  clock + ((2 * random * RandomRange + RandomDen) \div (2 * RandomDen))

\* variant: Math.ceil for Math.floor
generateIdCeil(clock, random) ==
  clock + ((random * RandomRange + RandomDen - 1) \div RandomDen)

\* Date.now() + Math.floor(Math.random() * 1000), Math.random() being
\* random / RandomDen
generateId(clock, random) == clock + ((random * RandomRange) \div RandomDen)

\* variant: the time of the call written into the default title
PostDefaultsTimed ==
  [title |-> Str(Chars("Test Post ") \o JSToString(Num(now))),
   body |-> Lit("This is a test post body with meaningful content for validation."),
   userId |-> Num(1)]

PostDefaults ==
  [userId |-> Num(1),
   title |-> Lit("Test Post Title"),
   body |-> Lit("This is a test post body with meaningful content.")]

\* variant: the defaults written after the spread, so that they win
createPostDefaultsLast(overrides) ==
  Obj(Spread(OwnProps(DefaultParam(overrides, Obj(EmptyProps))), Obj(PostDefaults)))

\* variant: a createdAt stamp taken from the clock at the time of use
createPostStamped(overrides) ==
  Obj(Spread([createdAt |-> Num(now)] @@ PostDefaults,
             DefaultParam(overrides, Obj(EmptyProps))))

createPost(overrides) ==
  Obj(Spread(PostDefaults, DefaultParam(overrides, Obj(EmptyProps))))

\* variant: the default email without its '@'
UserDefaultsNoAt(id) ==
  [name |-> Lit("Test User"),
   username |-> Str(Chars("testuser") \o JSToString(Num(id))),
   email |-> Str(Chars("test") \o JSToString(Num(id)) \o Chars("example.com")),
   address |-> Obj([street |-> Lit("Test Street")]),
   phone |-> Lit("1-234-567-8901"),
   website |-> Lit("testuser.com"),
   company |-> Obj([name |-> Lit("Test Company")])]

\* variant: a second id generated for the email
UserDefaultsTwoIds(id) ==
  [UserDefaultsNoAt(id) EXCEPT
     !.email = Str(Chars("test") \o JSToString(Num(id + 1)) \o Chars("@example.com"))]

UserDefaults(id) ==
  [name |-> Lit("Test User"),
   username |-> Str(Chars("testuser") \o JSToString(Num(id))),
   email |-> Str(Chars("test") \o JSToString(Num(id)) \o Chars("@example.com")),
   address |-> Obj([street |-> Lit("Test Street"),
                    suite |-> Lit("Apt. 123"),
                    city |-> Lit("Test City"),
                    zipcode |-> Lit("12345"),
                    geo |-> Obj([lat |-> Lit("0.0000"), lng |-> Lit("0.0000")])]),
   phone |-> Lit("1-234-567-8901"),
   website |-> Lit("testuser.com"),
   company |-> Obj([name |-> Lit("Test Company"),
                    catchPhrase |-> Lit("Testing excellence"),
                    bs |-> Lit("quality assurance")])]

\* variant: a nested override merged into the default nested object
createUserDeepMerge(overrides, clock, random) ==
  LET id == generateId(clock, random)
      dflt == UserDefaults(id)
      own == OwnProps(DefaultParam(overrides, Obj(EmptyProps)))
      shallow == Spread(dflt, Obj(own))
  IN Obj([key \in DOMAIN shallow |->
            IF key \in {"address", "company"} /\ key \in DOMAIN own
               /\ own[key].t = "object"
            THEN Obj(Spread(dflt[key].props, own[key]))
            ELSE shallow[key]])

createUser(overrides, clock, random) ==
  LET id == generateId(clock, random) IN
  Obj(Spread(UserDefaults(id), DefaultParam(overrides, Obj(EmptyProps))))

CommentDefaults(id) ==
  [postId |-> Num(1),
   name |-> Lit("Test Comment"),
   email |-> Str(Chars("commenter") \o JSToString(Num(id)) \o Chars("@example.com")),
   body |-> Lit("This is a test comment with valuable feedback.")]

\* variant: the generated id written into the comment
createCommentWithId(overrides, clock, random) ==
  LET id == generateId(clock, random) IN
  Obj(Spread([id |-> Num(id)] @@ CommentDefaults(id),
             DefaultParam(overrides, Obj(EmptyProps))))

createComment(overrides, clock, random) ==
  LET id == generateId(clock, random) IN
  Obj(Spread(CommentDefaults(id), DefaultParam(overrides, Obj(EmptyProps))))

\* variant: oversizedData with a body as long as its title
invalidPatternsShortBody ==
  [emptyPost |-> Obj(EmptyProps),
   missingRequiredFields |-> Obj([title |-> Lit("Only Title")]),
   invalidTypes |-> Obj([userId |-> Lit("not-a-number"), title |-> Num(123)]),
   oversizedData |-> Obj([title |-> Str(Repeat("x", 1000)),
                          body |-> Str(Repeat("y", 1000))]),
   sqlInjection |-> Obj([title |-> Lit("'; DROP TABLE posts; --"),
                         body |-> Lit("1 OR 1=1")]),
   xssAttempt |-> Obj([title |-> Lit("<script>alert(\"xss\")</script>"),
                       body |-> Lit("<img src=x onerror=alert(1)>")])]

invalidPatterns ==
  [emptyPost |-> Obj(EmptyProps),
   missingRequiredFields |-> Obj([title |-> Lit("Only Title")]),
   invalidTypes |-> Obj([userId |-> Lit("not-a-number"), title |-> Num(123)]),
   oversizedData |-> Obj([title |-> Str(Repeat("x", 1000)),
                          body |-> Str(Repeat("y", 10000))]),
   sqlInjection |-> Obj([title |-> Lit("'; DROP TABLE posts; --"),
                         body |-> Lit("1 OR 1=1")]),
   xssAttempt |-> Obj([title |-> Lit("<script>alert(\"xss\")</script>"),
                       body |-> Lit("<img src=x onerror=alert(1)>")])]

\* invalidPatterns[type] || {}
createInvalidData(type) ==
  LET found == Get(Obj(invalidPatterns), PropertyKey(type)) IN
  IF Truthy(found) THEN found ELSE Obj(EmptyProps)

---------------------------------------------------------------------------
(* The values the caller passes *)

Absent == [t |-> "absent"]

\* the object holding the fields of f that are not Absent
FromFields(f) == Obj([key \in {x \in DOMAIN f : f[x] # Absent} |-> f[key]])

\* the character sequences over alphabet of length at most n
Strings(alphabet, n) == UNION {[1..m -> alphabet] : m \in 0..n}

NumberSamples == {Num(n) : n \in -1..MaxNum} \cup {NaN, PosInfinity, NegInfinity}

NonObjects ==
  {Undefined, Null, Num(0), Num(1), NaN, Lit(""), Lit("post"), Bool(TRUE), Bool(FALSE)}

IdOptions == NumberSamples \cup {Absent, Undefined, Null, Lit("1")}
TextOptions == {Absent, Undefined, Num(1), Lit(""), Lit(" "), Lit("a")}
TextAlphabet == {"a", " ", "\t"}
EmailAlphabet == {"a", "@", ".", " "}

PostInputs ==
  NonObjects \cup {Arr(<<>>)}
  \cup {FromFields([id |-> a, userId |-> b, title |-> c, body |-> d, extra |-> e]) :
          a \in IdOptions, b \in IdOptions, c \in TextOptions, d \in TextOptions,
          e \in {Absent, Num(0)}}
  \cup {FromFields([id |-> Num(1), userId |-> Num(1), title |-> Str(c), body |-> Str(d)]) :
          c \in Strings(TextAlphabet, MaxTextLen), d \in Strings(TextAlphabet, MaxTextLen)}

EmailSamples ==
  {Absent, Undefined, Null, Num(1), Obj(EmptyProps), Arr(<<Lit("a@b.co")>>),
   Lit("a@b.co"), Lit("not-an-email"), Lit("a@b.c@d"), Lit("a@b.c\t")}

UserInputs ==
  NonObjects \cup {Arr(<<>>)}
  \cup {FromFields([id |-> Num(1), name |-> Lit("n"), username |-> Lit("u"), email |-> Str(e)]) :
          e \in Strings(EmailAlphabet, MaxEmailLen)}
  \cup {FromFields([id |-> a, name |-> b, username |-> c, email |-> e,
                    address |-> f, phone |-> g]) :
          a \in {Absent, Undefined, Num(1), Num(-1), Lit("x")},
          b \in {Absent, Lit(""), Lit("n"), Num(0)},
          c \in {Absent, Lit(""), Lit("u"), Num(0)},
          e \in EmailSamples,
          f \in {Absent, Num(0), Obj([city |-> Lit("Test City")])},
          g \in {Absent, Null}}

CommentInputs ==
  NonObjects \cup {Arr(<<>>)}
  \cup {FromFields([id |-> a, postId |-> b, name |-> c, email |-> d, body |-> e]) :
          a \in {Absent, Undefined, Num(1), Num(-1), Lit("x")},
          b \in {Absent, Null, Num(1), Num(0)},
          c \in {Absent, Lit(""), Lit("n")},
          d \in {Absent, Lit("x"), Lit("a@b.co"), Num(1)},
          e \in {Absent, Lit(""), Lit("y")}}
  \cup {Obj([id |-> v, postId |-> v, name |-> v, email |-> v, body |-> v]) :
          v \in {Null, Undefined}}

PostOverrides ==
  {Undefined, Null, Lit("ab"), Arr(<<Lit("x")>>)}
  \cup {FromFields([userId |-> a, title |-> b, body |-> c, id |-> d, tags |-> e]) :
          a \in {Absent, Undefined, Num(7), Lit("not-a-number")},
          b \in {Absent, Lit("Custom"), Num(123)},
          c \in {Absent, Lit("")},
          d \in {Absent, Num(1), Num(-1)},
          e \in {Absent, Arr(<<>>)}}

UserOverrides ==
  {Undefined}
  \cup {FromFields([username |-> a, email |-> b, id |-> c, address |-> d,
                    company |-> e]) :
          a \in {Absent, Lit("custom")},
          b \in {Absent, Lit("c@d.io")},
          c \in {Absent, Num(1)},
          d \in {Absent, Obj([city |-> Lit("X")])},
          e \in {Absent, Obj([name |-> Lit("Y")])}}

CommentOverrides ==
  {Undefined}
  \cup {FromFields([postId |-> a, email |-> b, id |-> c]) :
          a \in {Absent, Num(5)},
          b \in {Absent, Lit("c@d.io")},
          c \in {Absent, Num(1)}}

InvalidDataKinds ==
  {Lit("emptyPost"), Lit("missingRequiredFields"), Lit("invalidTypes"),
   Lit("oversizedData"), Lit("sqlInjection"), Lit("xssAttempt"),
   Lit("unknownKind"), Lit(""), Lit("EmptyPost"), Lit("constructor"),
   Lit("toString"), Lit("__proto__"), Undefined, Null, Num(0)}

\* the numerators Math.random() is drawn from
RandomSamples == (0..MaxRandomLow) \cup {RandomDen - 1}

---------------------------------------------------------------------------
(* The concurrent workflows of the integration test *)

\* Array.from({ length: 5 }, ...)
Workflows == 5

\* a workflow whose callback has not been called
NotStarted ==
  [pc |-> "created", user |-> Undefined, postData |-> Undefined, post |-> Undefined,
   commentData |-> Undefined, comment |-> Undefined, result |-> Undefined]

\* const user, const post, const comment before their initialisation
NoBindings == [user |-> Undefined, post |-> Undefined, comment |-> Undefined]

---------------------------------------------------------------------------
(* The caller.  JavaScript runs one call to its end before the next starts:
   a call is made when the caller holds no result (op = "none"), and the
   caller then drops or keeps the result. *)

Init ==
  /\ now = 0
  /\ op = "none"
  /\ arg = Undefined
  /\ ret = NoCall
  /\ reads = <<>>
  /\ held = NoCall
  /\ heap = <<>>
  /\ ci = Undefined
  /\ tests = [t \in 1..NumTests |-> [status |-> "queued", attempts |-> 0]]
  /\ request = [state |-> "idle", latency |-> 0, elapsed |-> 0]
  /\ flows = [i \in 1..Workflows |-> NotStarted]
  /\ locals = [i \in 1..Workflows |-> NoBindings]
  /\ joined = [state |-> "none"]

\* the clock advances
Tick ==
  /\ now < MaxClock
  /\ now' = now + 1
  /\ UNCHANGED <<op, arg, ret, reads, held, heap>>
  /\ UNCHANGED suite

\* generateId reads the clock, then the random generator
Readings(clock, random) ==
  <<[source |-> "Date.now", value |-> clock],
    [source |-> "Math.random", value |-> random]>>

CallGenerateId ==
  /\ op = "none"
  /\ \E random \in RandomSamples :
       /\ op' = "generateId"
       /\ arg' = Undefined
       /\ ret' = Return(Num(generateId(now, random)))
       /\ reads' = Readings(now, random)
  /\ UNCHANGED <<now, held, heap>>
  /\ UNCHANGED suite

CallCreateInvalidData ==
  /\ op = "none"
  /\ \E type \in InvalidDataKinds :
       /\ op' = "createInvalidData"
       /\ arg' = type
       /\ ret' = Return(createInvalidData(type))
       /\ reads' = <<>>
  /\ UNCHANGED <<now, held, heap>>
  /\ UNCHANGED suite

CallCreatePost ==
  /\ op = "none"
  /\ \E overrides \in PostOverrides :
       /\ op' = "createPost"
       /\ arg' = overrides
       /\ ret' = Return(createPost(overrides))
  /\ reads' = <<>>
  /\ UNCHANGED <<now, held, heap>>
  /\ UNCHANGED suite

CallCreateUser ==
  /\ op = "none"
  /\ \E overrides \in UserOverrides, random \in RandomSamples :
       /\ op' = "createUser"
       /\ arg' = overrides
       /\ ret' = Return(createUser(overrides, now, random))
       /\ reads' = Readings(now, random)
  /\ UNCHANGED <<now, held, heap>>
  /\ UNCHANGED suite

CallCreateComment ==
  /\ op = "none"
  /\ \E overrides \in CommentOverrides, random \in RandomSamples :
       /\ op' = "createComment"
       /\ arg' = overrides
       /\ ret' = Return(createComment(overrides, now, random))
       /\ reads' = Readings(now, random)
  /\ UNCHANGED <<now, held, heap>>
  /\ UNCHANGED suite

CallValidatePost ==
  /\ op = "none"
  /\ \E post \in PostInputs :
       /\ op' = "validatePost"
       /\ arg' = post
       /\ ret' = validatePost(post)
  /\ reads' = <<>>
  /\ UNCHANGED <<now, held, heap>>
  /\ UNCHANGED suite

CallValidateUser ==
  /\ op = "none"
  /\ \E user \in UserInputs :
       /\ op' = "validateUser"
       /\ arg' = user
       /\ ret' = validateUser(user)
  /\ reads' = <<>>
  /\ UNCHANGED <<now, held, heap>>
  /\ UNCHANGED suite

CallValidateComment ==
  /\ op = "none"
  /\ \E comment \in CommentInputs :
       /\ op' = "validateComment"
       /\ arg' = comment
       /\ ret' = validateComment(comment)
  /\ reads' = <<>>
  /\ UNCHANGED <<now, held, heap>>
  /\ UNCHANGED suite

\* the caller drops the result of the last call
Discard ==
  /\ op # "none"
  /\ op' = "none"
  /\ arg' = Undefined
  /\ ret' = NoCall
  /\ reads' = <<>>
  /\ UNCHANGED <<now, held, heap>>
  /\ UNCHANGED suite

\* the caller keeps the user a createUser call returned, for a later comparison
Hold ==
  /\ op = "createUser"
  /\ held' = [arg |-> arg, value |-> ret.value]
  /\ op' = "none"
  /\ arg' = Undefined
  /\ ret' = NoCall
  /\ reads' = <<>>
  /\ UNCHANGED <<now, heap>>
  /\ UNCHANGED suite

Next ==
  \/ Tick
  \/ CallGenerateId
  \/ CallCreateInvalidData
  \/ CallCreatePost
  \/ CallCreateUser
  \/ CallCreateComment
  \/ CallValidatePost
  \/ CallValidateUser
  \/ CallValidateComment
  \/ Discard

Spec == Init /\ [][Next]_vars

\* a tight loop of createUser calls whose results the caller compares
NextLoop ==
  \/ Tick
  \/ CallCreateUser
  \/ Hold
  \/ Discard

SpecLoop == Init /\ [][NextLoop]_vars

\* the clock advances by just under a second, or by a second
Elapse ==
  /\ \E d \in {RandomRange - 1, RandomRange} :
       /\ now + d <= MaxIdClock
       /\ now' = now + d
  /\ UNCHANGED <<op, arg, ret, reads, held, heap>>
  /\ UNCHANGED suite

\* the caller keeps the id a generateId call returned, and when it was made
HoldId ==
  /\ op = "generateId"
  /\ held' = [kind |-> "id", clock |-> reads[1].value, value |-> ret.value]
  /\ op' = "none"
  /\ arg' = Undefined
  /\ ret' = NoCall
  /\ reads' = <<>>
  /\ UNCHANGED <<now, heap>>
  /\ UNCHANGED suite

\* generateId calls over time, an earlier id being compared with a later one
NextIds ==
  \/ Tick
  \/ Elapse
  \/ CallGenerateId
  \/ HoldId
  \/ Discard

SpecIds == Init /\ [][NextIds]_vars

\* the factory method called o, applied to a
Factory(o, a, clock, random) ==
  CASE o = "createPost" -> createPost(a)
    [] o = "createUser" -> createUser(a, clock, random)
    [] o = "createComment" -> createComment(a, clock, random)
    [] o = "createInvalidData" -> createInvalidData(a)

FactoryMethods == {"createPost", "createUser", "createComment", "createInvalidData"}

\* the caller keeps the result of a factory call, to compare a second run with
KeepRun ==
  /\ op \in FactoryMethods
  /\ held = NoCall
  /\ held' = [kind |-> "run", value |-> ret.value, reads |-> reads, clock |-> now]
  /\ UNCHANGED <<now, op, arg, ret, reads, heap>>
  /\ UNCHANGED suite

\* the same factory method is called again with equal arguments
CallSame ==
  /\ op \in FactoryMethods
  /\ held # NoCall
  /\ \E random \in RandomSamples :
       /\ ret' = Return(Factory(op, arg, now, random))
       /\ reads' = IF op \in {"createUser", "createComment"}
                   THEN Readings(now, random) ELSE <<>>
  /\ UNCHANGED <<now, op, arg, held, heap>>
  /\ UNCHANGED suite

\* the caller drops what it has of both runs
Forget ==
  /\ op # "none"
  /\ op' = "none"
  /\ arg' = Undefined
  /\ ret' = NoCall
  /\ reads' = <<>>
  /\ held' = NoCall
  /\ UNCHANGED <<now, heap>>
  /\ UNCHANGED suite

\* a factory call and a second run of it at another time
NextRuns ==
  \/ Tick
  \/ CallCreatePost
  \/ CallCreateInvalidData
  \/ CallCreateUser
  \/ CallCreateComment
  \/ KeepRun
  \/ CallSame
  \/ Forget

SpecRuns == Init /\ [][NextRuns]_vars

---------------------------------------------------------------------------
(* Calls by reference.  The caller's objects and the objects the factory
   returns live in the heap; a call is given the address of its argument.
   As above, the caller makes one call at a time and drops its outcome before
   the next. *)

Ref(a) == [t |-> "ref", a |-> a]

\* variant: the parameter copied in depth before use (structuredClone)
RECURSIVE DerefCopy(_, _)
DerefCopy(h, v) ==
  IF v.t = "ref"
  THEN Obj([key \in DOMAIN h[v.a].props |-> DerefCopy(h, h[v.a].props[key])])
  ELSE v

\* the object a parameter denotes
Deref(h, v) == IF v.t = "ref" THEN h[v.a] ELSE v

\* variant: an object with the same content as an existing one is that object
\* (defaults kept in constants of the module)
ObjectLiteralInterned(h, v) ==
  IF \E a \in DOMAIN h : h[a] = v
  THEN [heap |-> h, ref |-> Ref(CHOOSE a \in DOMAIN h : h[a] = v)]
  ELSE [heap |-> Append(h, v), ref |-> Ref(Len(h) + 1)]

\* variant: one object kept by the module and filled in again at every use
ObjectLiteralReused(h, v) ==
  IF Len(h) = 0
  THEN [heap |-> Append(h, v), ref |-> Ref(Len(h) + 1)]
  ELSE [heap |-> [h EXCEPT ![Len(h)] = v], ref |-> Ref(Len(h))]

\* an object literal `{ ... }` evaluates to a new object
ObjectLiteral(h, v) == [heap |-> Append(h, v), ref |-> Ref(Len(h) + 1)]

\* objects the tests build themselves and pass on
CallerObjects ==
  {Obj(EmptyProps),
   Obj([id |-> Num(1)]),
   Obj([id |-> Num(1), userId |-> Num(1), title |-> Lit(" a "), body |-> Lit("b")])}

\* what a caller can pass: nothing, or an object it has a reference to
Passable == {Undefined} \cup {Ref(a) : a \in DOMAIN heap}

\* the readings of Math.random() drawn here (which object a call returns does
\* not depend on them)
HeapRandomSamples == {RandomDen - 1}

CallerNew ==
  /\ op = "none"
  /\ Len(heap) < MaxHeap
  /\ \E o \in CallerObjects :
       LET new == ObjectLiteral(heap, o) IN
         /\ heap' = new.heap
         /\ op' = "new"
         /\ arg' = Undefined
         /\ ret' = Return(new.ref)
  /\ reads' = <<>>
  /\ UNCHANGED <<now, held>>
  /\ UNCHANGED suite

RefCreatePost ==
  /\ op = "none"
  /\ Len(heap) < MaxHeap
  /\ \E overrides \in Passable :
       LET new == ObjectLiteral(heap, createPost(Deref(heap, overrides))) IN
         /\ heap' = new.heap
         /\ op' = "createPost"
         /\ arg' = overrides
         /\ ret' = Return(new.ref)
  /\ reads' = <<>>
  /\ UNCHANGED <<now, held>>
  /\ UNCHANGED suite

RefCreateUser ==
  /\ op = "none"
  /\ Len(heap) < MaxHeap
  /\ \E overrides \in Passable, random \in HeapRandomSamples :
       LET new == ObjectLiteral(heap, createUser(Deref(heap, overrides), now, random)) IN
         /\ heap' = new.heap
         /\ op' = "createUser"
         /\ arg' = overrides
         /\ ret' = Return(new.ref)
         /\ reads' = Readings(now, random)
  /\ UNCHANGED <<now, held>>
  /\ UNCHANGED suite

RefCreateComment ==
  /\ op = "none"
  /\ Len(heap) < MaxHeap
  /\ \E overrides \in Passable, random \in HeapRandomSamples :
       LET new == ObjectLiteral(heap, createComment(Deref(heap, overrides), now, random)) IN
         /\ heap' = new.heap
         /\ op' = "createComment"
         /\ arg' = overrides
         /\ ret' = Return(new.ref)
         /\ reads' = Readings(now, random)
  /\ UNCHANGED <<now, held>>
  /\ UNCHANGED suite

\* variant: the title written back trimmed before it is checked
RefValidatePostTrimming ==
  /\ op = "none"
  /\ \E post \in Passable :
       /\ op' = "validatePost"
       /\ arg' = post
       /\ ret' = validatePost(Deref(heap, post))
       /\ heap' =
            IF post.t = "ref" /\ TypeOf(Get(heap[post.a], "title")) = "string"
            THEN [heap EXCEPT ![post.a] =
                    Obj([key \in DOMAIN heap[post.a].props |->
                           IF key = "title"
                           THEN Str(Trim(heap[post.a].props[key].s))
                           ELSE heap[post.a].props[key]])]
            ELSE heap
  /\ reads' = <<>>
  /\ UNCHANGED <<now, held>>
  /\ UNCHANGED suite

RefValidatePost ==
  /\ op = "none"
  /\ \E post \in Passable :
       /\ op' = "validatePost"
       /\ arg' = post
       /\ ret' = validatePost(Deref(heap, post))
  /\ reads' = <<>>
  /\ UNCHANGED <<now, held, heap>>
  /\ UNCHANGED suite

RefValidateUser ==
  /\ op = "none"
  /\ \E user \in Passable :
       /\ op' = "validateUser"
       /\ arg' = user
       /\ ret' = validateUser(Deref(heap, user))
  /\ reads' = <<>>
  /\ UNCHANGED <<now, held, heap>>
  /\ UNCHANGED suite

RefValidateComment ==
  /\ op = "none"
  /\ \E comment \in Passable :
       /\ op' = "validateComment"
       /\ arg' = comment
       /\ ret' = validateComment(Deref(heap, comment))
  /\ reads' = <<>>
  /\ UNCHANGED <<now, held, heap>>
  /\ UNCHANGED suite

\* An expression holding nested object literals: every literal evaluates to an
\* object of its own, the inner ones first; a reference evaluates to itself.
RECURSIVE Evaluate(_, _), EvaluateProps(_, _, _)
EvaluateProps(h, props, todo) ==
  IF todo = {}
  THEN [heap |-> h, props |-> props]
  ELSE LET key == CHOOSE k \in todo : TRUE
           inner == Evaluate(h, props[key])
       IN EvaluateProps(inner.heap, [props EXCEPT ![key] = inner.ref], todo \ {key})

Evaluate(h, v) ==
  IF v.t = "object"
  THEN LET inner == EvaluateProps(h, v.props, DOMAIN v.props)
       IN ObjectLiteral(inner.heap, Obj(inner.props))
  ELSE [heap |-> h, ref |-> v]

\* overrides the tests build with a nested object in them
NestedOverrides == {Obj([address |-> Obj([city |-> Lit("X")])])}

\* the kinds of invalid data asked for where nested objects are followed
SharedKinds == {Lit("invalidTypes")}

\* what is passed as overrides there: nothing, or overrides the caller built
NestedPassable ==
  {Undefined}
  \cup {Ref(a) : a \in {x \in DOMAIN heap : /\ "address" \in DOMAIN heap[x].props
                                             /\ "name" \notin DOMAIN heap[x].props}}

\* the objects reached from v through properties, v's own included
RECURSIVE Reach(_, _)
Reach(h, v) ==
  IF v.t = "ref"
  THEN {v.a} \cup UNION {Reach(h, h[v.a].props[key]) : key \in DOMAIN h[v.a].props}
  ELSE {}

NestedNew ==
  /\ op = "none"
  /\ \E o \in NestedOverrides :
       LET new == Evaluate(heap, o) IN
         /\ Len(new.heap) <= MaxCells
         /\ heap' = new.heap
         /\ op' = "new"
         /\ arg' = Undefined
         /\ ret' = Return(new.ref)
  /\ reads' = <<>>
  /\ UNCHANGED <<now, held>>
  /\ UNCHANGED suite

NestedCreateUser ==
  /\ op = "none"
  /\ \E overrides \in NestedPassable, random \in HeapRandomSamples :
       LET new == Evaluate(heap, createUser(Deref(heap, overrides), now, random)) IN
         /\ Len(new.heap) <= MaxCells
         /\ heap' = new.heap
         /\ op' = "createUser"
         /\ arg' = overrides
         /\ ret' = Return(new.ref)
         /\ reads' = Readings(now, random)
  /\ UNCHANGED <<now, held>>
  /\ UNCHANGED suite

NestedCreateInvalidData ==
  /\ op = "none"
  /\ \E type \in SharedKinds :
       LET new == Evaluate(heap, createInvalidData(type)) IN
         /\ Len(new.heap) <= MaxCells
         /\ heap' = new.heap
         /\ op' = "createInvalidData"
         /\ arg' = type
         /\ ret' = Return(new.ref)
  /\ reads' = <<>>
  /\ UNCHANGED <<now, held>>
  /\ UNCHANGED suite

\* the caller writes a property of the object it was returned, or of an object
\* nested in it: it replaces city where there is one and adds it where there is
\* none
CallerMutate ==
  /\ op \in {"new", "createUser", "createInvalidData"}
  /\ \E a \in Reach(heap, ret.value) :
       /\ heap' = [heap EXCEPT ![a] =
                     Obj([key \in DOMAIN heap[a].props \cup {"city"} |->
                            IF key = "city" THEN Lit("Moved") ELSE heap[a].props[key]])]
       /\ op' = "mutate"
       /\ arg' = Ref(a)
       /\ ret' = Return(Undefined)
  /\ reads' = <<>>
  /\ UNCHANGED <<now, held>>
  /\ UNCHANGED suite

\* factory calls on objects with nested objects, and a caller that writes to
\* the objects it holds
NextNested ==
  \/ NestedNew
  \/ NestedCreateUser
  \/ NestedCreateInvalidData
  \/ CallerMutate
  \/ Discard

SpecNested == Init /\ [][NextNested]_vars

---------------------------------------------------------------------------
(* The concurrent workflows: five calls of one async function, each suspended
   at its awaits, joined by Promise.all.  Between two awaits a workflow runs
   without interruption, and no reply is handled before the test itself awaits
   the join. *)

\* variant: user, post and comment declared once, outside the callback
ScopeShared(i) == 1

\* the scope holding user, post and comment of workflow i: each call of the
\* callback has its own
Scope(i) == i

\* the ids the server gives a created post, and a created comment
PostIds == {101, 102}
CommentIds == {501}

\* what the server sends back for a created resource: the data and an id
Created(data, id) == Obj([key \in DOMAIN data.props \cup {"id"} |->
                            IF key = "id" THEN Num(id) ELSE data.props[key]])

\* Array.from calls the callback for each index in turn; the call runs up to
\* its first await, with GET /users/i sent
StartWorkflow ==
  /\ \E i \in 1..Workflows :
       /\ flows[i].pc = "created"
       /\ \A j \in 1..(i - 1) : flows[j].pc # "created"
       /\ flows' = [flows EXCEPT ![i].pc = "awaitUser"]
  /\ UNCHANGED <<ci, tests, request, locals, joined>>
  /\ UNCHANGED helperCalls

\* Promise.all(workflows), called once the array is built
Join ==
  /\ joined.state = "none"
  /\ \A i \in 1..Workflows : flows[i].pc # "created"
  /\ joined' = [state |-> "pending"]
  /\ UNCHANGED <<ci, tests, request, flows, locals>>
  /\ UNCHANGED helperCalls

\* the user arrives: user is bound, the post payload is built and sent
UserReply ==
  /\ joined.state # "none"
  /\ \E i \in 1..Workflows :
       LET user == Obj([id |-> Num(i), name |-> Lit("n")])
           bound == [locals EXCEPT ![Scope(i)].user = user]
           data == createPost(Obj([userId |-> Get(bound[Scope(i)].user, "id")]))
       IN /\ flows[i].pc = "awaitUser"
          /\ locals' = bound
          /\ flows' = [flows EXCEPT ![i].pc = "awaitPost", ![i].user = user,
                                    ![i].postData = data]
  /\ UNCHANGED <<ci, tests, request, joined>>
  /\ UNCHANGED helperCalls

\* the created post arrives: post is bound, the comment payload is built and
\* sent
PostReply ==
  /\ joined.state # "none"
  /\ \E i \in 1..Workflows, id \in PostIds, random \in HeapRandomSamples :
       LET post == Created(flows[i].postData, id)
           bound == [locals EXCEPT ![Scope(i)].post = post]
           data == createComment(Obj([postId |-> Get(bound[Scope(i)].post, "id")]),
                                 now, random)
       IN /\ flows[i].pc = "awaitPost"
          /\ locals' = bound
          /\ flows' = [flows EXCEPT ![i].pc = "awaitComment", ![i].post = post,
                                    ![i].commentData = data]
  /\ UNCHANGED <<ci, tests, request, joined>>
  /\ UNCHANGED helperCalls

\* the created comment arrives: comment is bound and { user, post, comment }
\* returned
CommentReply ==
  /\ joined.state # "none"
  /\ \E i \in 1..Workflows, id \in CommentIds :
       LET comment == Created(flows[i].commentData, id)
           bound == [locals EXCEPT ![Scope(i)].comment = comment]
       IN /\ flows[i].pc = "awaitComment"
          /\ locals' = bound
          /\ flows' = [flows EXCEPT ![i].pc = "done", ![i].comment = comment,
                                    ![i].result = Obj([user |-> bound[Scope(i)].user,
                                                       post |-> bound[Scope(i)].post,
                                                       comment |-> bound[Scope(i)].comment])]
  /\ UNCHANGED <<ci, tests, request, joined>>
  /\ UNCHANGED helperCalls

\* a request of a workflow fails: the workflow's promise rejects and its
\* bindings are gone
RequestFails ==
  /\ joined.state # "none"
  /\ \E i \in 1..Workflows :
       /\ flows[i].pc \in {"awaitUser", "awaitPost", "awaitComment"}
       /\ flows' = [flows EXCEPT ![i] = [NotStarted EXCEPT !.pc = "failed"]]
       /\ locals' = [locals EXCEPT ![Scope(i)] = NoBindings]
  /\ UNCHANGED <<ci, tests, request, joined>>
  /\ UNCHANGED helperCalls

\* every workflow has returned: the join resolves with their results, in order
JoinResolves ==
  /\ joined.state = "pending"
  /\ \A i \in 1..Workflows : flows[i].pc = "done"
  /\ joined' = [state |-> "resolved",
                results |-> [i \in 1..Workflows |-> flows[i].result]]
  /\ UNCHANGED <<ci, tests, request, flows, locals>>
  /\ UNCHANGED helperCalls

\* a workflow has failed: the join rejects
JoinRejects ==
  /\ joined.state = "pending"
  /\ \E i \in 1..Workflows : flows[i].pc = "failed"
  /\ joined' = [state |-> "rejected"]
  /\ UNCHANGED <<ci, tests, request, flows, locals>>
  /\ UNCHANGED helperCalls

NextFlows ==
  \/ StartWorkflow
  \/ Join
  \/ UserReply
  \/ PostReply
  \/ CommentReply
  \/ RequestFails
  \/ JoinResolves
  \/ JoinRejects

SpecFlows == Init /\ [][NextFlows]_vars

---------------------------------------------------------------------------
(* The test runner, as playwright.config.js sets it up *)

\* variant: retries: 2
retriesAlways(env) == 2

\* retries: process.env.CI ? 2 : 0
retries(env) == IF Truthy(env) THEN 2 ELSE 0

\* variant: workers: undefined
workersDefault(env) == DefaultWorkers

\* workers: process.env.CI ? 2 : undefined (undefined: the runner's default)
workers(env) == IF Truthy(env) THEN 2 ELSE DefaultWorkers

Running == {t \in 1..NumTests : tests[t].status = "running"}

\* the environment the runner is started in sets CI
SetCI ==
  /\ ci = Undefined
  /\ \A t \in 1..NumTests : tests[t].attempts = 0
  /\ ci' \in {Lit("true"), Lit("")}
  /\ UNCHANGED <<tests, request, flows, locals, joined>>
  /\ UNCHANGED helperCalls

\* a free worker takes a test that waits for a first or a further attempt
StartTest ==
  /\ Cardinality(Running) < workers(ci)
  /\ \E t \in 1..NumTests :
       /\ tests[t].status = "queued"
       /\ tests' = [tests EXCEPT ![t] = [status |-> "running",
                                         attempts |-> tests[t].attempts + 1]]
  /\ UNCHANGED <<ci, request, flows, locals, joined>>
  /\ UNCHANGED helperCalls

TestPasses ==
  /\ \E t \in Running :
       tests' = [tests EXCEPT ![t].status = "passed"]
  /\ UNCHANGED <<ci, request, flows, locals, joined>>
  /\ UNCHANGED helperCalls

\* a failed attempt: the test waits for a retry while retries are left
TestFails ==
  /\ \E t \in Running :
       tests' = [tests EXCEPT ![t].status =
                   IF tests[t].attempts <= retries(ci) THEN "queued" ELSE "failed"]
  /\ UNCHANGED <<ci, request, flows, locals, joined>>
  /\ UNCHANGED helperCalls

NextRunner ==
  \/ SetCI
  \/ StartTest
  \/ TestPasses
  \/ TestFails

SpecRunner == Init /\ [][NextRunner]_vars

---------------------------------------------------------------------------
(* The request of the timeout test: request.get('/posts/1', { timeout: 100 }) *)

\* { timeout: 100 }, in milliseconds
RequestTimeout == 100

\* the times, in milliseconds, the server may take to reply
Latencies == {1, RequestTimeout - 1, RequestTimeout, RequestTimeout + 1}

IssueGet ==
  /\ request.state = "idle"
  /\ \E latency \in Latencies :
       request' = [state |-> "pending", latency |-> latency, elapsed |-> 0]
  /\ UNCHANGED <<ci, tests, flows, locals, joined>>
  /\ UNCHANGED helperCalls

\* a millisecond passes with neither the reply nor the timer due
Wait ==
  /\ request.state = "pending"
  /\ request.elapsed < request.latency
  /\ request.elapsed < RequestTimeout
  /\ request' = [request EXCEPT !.elapsed = request.elapsed + 1]
  /\ UNCHANGED <<ci, tests, flows, locals, joined>>
  /\ UNCHANGED helperCalls

\* the reply arrives while the request is pending: the promise resolves
Reply ==
  /\ request.state = "pending"
  /\ request.elapsed = request.latency
  /\ request' = [request EXCEPT !.state = "resolved"]
  /\ UNCHANGED <<ci, tests, flows, locals, joined>>
  /\ UNCHANGED helperCalls

\* the timeout passes while the request is pending: the promise rejects
TimerFires ==
  /\ request.state = "pending"
  /\ request.elapsed = RequestTimeout
  /\ request' = [request EXCEPT !.state = "rejected"]
  /\ UNCHANGED <<ci, tests, flows, locals, joined>>
  /\ UNCHANGED helperCalls

\* the connection fails: the promise rejects
NetworkError ==
  /\ request.state = "pending"
  /\ request' = [request EXCEPT !.state = "rejected"]
  /\ UNCHANGED <<ci, tests, flows, locals, joined>>
  /\ UNCHANGED helperCalls

NextRequest ==
  \/ IssueGet
  \/ Wait
  \/ Reply
  \/ TimerFires
  \/ NetworkError

SpecRequest == Init /\ [][NextRequest]_vars

NextHeap ==
  \/ CallerNew
  \/ RefCreatePost
  \/ RefCreateUser
  \/ RefCreateComment
  \/ RefValidatePost
  \/ RefValidateUser
  \/ RefValidateComment
  \/ Discard

SpecHeap == Init /\ [][NextHeap]_vars

---------------------------------------------------------------------------
(* Notions the properties below are stated in *)

IsObject(v) == v.t \in {"object", "array"}

\* the keys present in an object (an array has none of the names used here)
KeysOf(v) == IF v.t = "object" THEN DOMAIN v.props ELSE {}

\* a number greater than zero
IsPositiveNumber(v) ==
  /\ v.t = "number"
  /\ \/ v.k = "finite" /\ v.n > 0
     \/ v.k = "+Infinity"

\* a string with at least one character that is not whitespace
IsNonBlankString(v) ==
  /\ v.t = "string"
  /\ \E i \in 1..Len(v.s) : v.s[i] \notin WhiteSpace

\* needle occurs in hay, first at position FirstAt(hay, needle)
OccursAt(hay, needle, i) ==
  /\ i + Len(needle) - 1 <= Len(hay)
  /\ SubSeq(hay, i, i + Len(needle) - 1) = needle

Contains(hay, needle) == \E i \in 1..Len(hay) : OccursAt(hay, needle, i)

FirstAt(hay, needle) ==
  CHOOSE i \in 1..Len(hay) :
    /\ OccursAt(hay, needle, i)
    /\ \A j \in 1..(i - 1) : ~OccursAt(hay, needle, j)

\* the message msg names exactly the fields of absent, in the order of required
NamesExactly(msg, required, absent) ==
  /\ \A i \in 1..Len(required) :
       Contains(msg, Chars(required[i])) <=> required[i] \in absent
  /\ \A i, j \in 1..Len(required) :
       (i < j /\ required[i] \in absent /\ required[j] \in absent)
         => FirstAt(msg, Chars(required[i])) < FirstAt(msg, Chars(required[j]))

Set(seq) == {seq[i] : i \in 1..Len(seq)}

---------------------------------------------------------------------------
(* Properties *)

\* C1: override precedence of createPost.  For every overrides object o the
\* result has, for every key of o, the value o gives it (also for keys that are
\* not defaults, such as id), for every default key (userId, title, body) not
\* in o the default value, and no other key.
C1_OverridePrecedence ==
  (op = "createPost" /\ arg.t = "object") =>
    /\ ret.kind = "return"
    /\ ret.value.t = "object"
    /\ DOMAIN ret.value.props = DOMAIN arg.props \cup {"userId", "title", "body"}
    /\ \A key \in DOMAIN arg.props : ret.value.props[key] = arg.props[key]
    /\ "userId" \notin DOMAIN arg.props => ret.value.props["userId"] = Num(1)
    /\ "title" \notin DOMAIN arg.props =>
         ret.value.props["title"] = Lit("Test Post Title")
    /\ "body" \notin DOMAIN arg.props =>
         ret.value.props["body"] =
           Lit("This is a test post body with meaningful content.")

\* a createPost call that overrode title and id and kept the default body
C1_Witness ==
  /\ op = "createPost"
  /\ arg.t = "object"
  /\ {"title", "id"} \subseteq DOMAIN arg.props
  /\ "body" \notin DOMAIN arg.props
  /\ ret.value.props["title"] = Lit("Custom")
  /\ ret.value.props["id"] = Num(1)

\* what C2 calls a valid post
IsValidPost(v) ==
  /\ IsObject(v)
  /\ {"id", "userId", "title", "body"} \subseteq KeysOf(v)
  /\ IsPositiveNumber(v.props["id"])
  /\ IsPositiveNumber(v.props["userId"])
  /\ IsNonBlankString(v.props["title"])
  /\ IsNonBlankString(v.props["body"])

\* C2: validatePost succeeds (returns nothing, throws nothing) if and only if
\* its argument is an object in which id, userId, title and body are present,
\* id and userId are positive numbers and title and body are strings that are
\* not empty after trimming; in every other case it throws an Error.
C2_SucceedsIffValid ==
  op = "validatePost" =>
    /\ ret.kind = "return" <=> IsValidPost(arg)
    /\ ret.kind = "return" => ret.value = Undefined
    /\ ret.kind # "return" => (ret.kind = "throw" /\ ret.error = "Error")

\* C3: when a non-empty subset S of {id, userId, title, body} is absent from
\* the object, validatePost throws an error whose message names exactly the
\* fields of S, in the order id, userId, title, body.
C3_MissingFieldsNamed ==
  (op = "validatePost" /\ IsObject(arg)
     /\ Set(PostRequiredFields) \ KeysOf(arg) # {}) =>
    /\ ret.kind = "throw"
    /\ NamesExactly(ret.message, PostRequiredFields,
                    Set(PostRequiredFields) \ KeysOf(arg))

\* a validatePost call on an object lacking both id and title, and only those
C3_Witness ==
  /\ op = "validatePost"
  /\ arg.t = "object"
  /\ Set(PostRequiredFields) \ DOMAIN arg.props = {"id", "title"}
  /\ ret.kind = "throw"
  /\ Contains(ret.message, Chars("id, title"))

\* C4: with id, userId, title and body present, validatePost fails whenever id
\* or userId is not a positive number; it never accepts such a post.
C4_RejectsNonPositiveIds ==
  (op = "validatePost" /\ IsObject(arg)
     /\ {"id", "userId", "title", "body"} \subseteq KeysOf(arg)
     /\ (~IsPositiveNumber(arg.props["id"]) \/ ~IsPositiveNumber(arg.props["userId"])))
    => ret.kind = "throw"

\* C5: with all four fields present and id and userId positive numbers,
\* validatePost fails when title or body is not a string, is the empty string
\* or consists only of whitespace.
C5_RejectsBlankText ==
  (op = "validatePost" /\ IsObject(arg)
     /\ {"id", "userId", "title", "body"} \subseteq KeysOf(arg)
     /\ IsPositiveNumber(arg.props["id"])
     /\ IsPositiveNumber(arg.props["userId"])
     /\ (~IsNonBlankString(arg.props["title"]) \/ ~IsNonBlankString(arg.props["body"])))
    => /\ ret.kind = "throw"
       /\ ret.message \in {Chars("Post title must be a non-empty string"),
                           Chars("Post body must be a non-empty string")}

\* a validatePost call on a post whose title is two whitespace characters
C5_Witness ==
  /\ op = "validatePost"
  /\ arg.t = "object"
  /\ {"id", "userId", "title", "body"} \subseteq DOMAIN arg.props
  /\ arg.props["title"] = Str(<<" ", "\t">>)
  /\ IsNonBlankString(arg.props["body"])
  /\ ret = Throw(Chars("Post title must be a non-empty string"))

\* cs is one or more characters satisfying Part, then '@', then one or more
\* satisfying Part, then '.', then one or more satisfying Last
SplitsAsEmail(cs, Part(_), Last(_)) ==
  \E i, j \in 1..Len(cs) :
    /\ 1 < i /\ i + 1 < j /\ j < Len(cs)
    /\ cs[i] = "@"
    /\ cs[j] = "."
    /\ \A x \in 1..(i - 1) : Part(cs[x])
    /\ \A x \in (i + 1)..(j - 1) : Part(cs[x])
    /\ \A x \in (j + 1)..Len(cs) : Last(cs[x])

NotSpace(c) == c \notin WhiteSpace
NotSpaceNotAt(c) == c \notin WhiteSpace /\ c # "@"

\* C6 (as stated): with id, name, username and email present, validateUser
\* fails exactly when email does not match: one or more characters that are
\* neither whitespace nor '@', '@', one or more such characters, '.', one or
\* more non-space characters.
C6_EmailPatternAsStated ==
  (op = "validateUser" /\ IsObject(arg)
     /\ Set(UserRequiredFields) \subseteq KeysOf(arg)
     /\ arg.props["email"].t = "string")
    => (ret.kind = "throw" <=>
          ~SplitsAsEmail(arg.props["email"].s, NotSpaceNotAt, NotSpace))

\* C6 (amended): with id, name, username and email present, validateUser fails
\* exactly when email (in its string form) does not match: one or more
\* characters that are neither whitespace nor '@', '@', one or more such
\* characters, '.', one or more characters that are neither whitespace nor '@'.
C6_EmailPattern ==
  (op = "validateUser" /\ IsObject(arg)
     /\ Set(UserRequiredFields) \subseteq KeysOf(arg))
    => /\ ret.kind = "throw" <=>
            ~SplitsAsEmail(JSToString(arg.props["email"]), NotSpaceNotAt, NotSpaceNotAt)
       /\ ret.kind = "throw" => ret = Throw(Chars("User email must be valid format"))
       /\ ret.kind # "throw" => ret = Return(Undefined)

\* a validateUser call that rejected an email whose last part holds an '@'
C6_Witness ==
  /\ op = "validateUser"
  /\ arg.t = "object"
  /\ Set(UserRequiredFields) \subseteq DOMAIN arg.props
  /\ arg.props["email"] = Lit("a@a.@")
  /\ ret = Throw(Chars("User email must be valid format"))

\* the user with only the required fields it has, and with id, name and
\* username replaced by fixed values
RequiredOnly(user) ==
  Obj([key \in DOMAIN user.props \cap Set(UserRequiredFields) |->
         IF key = "email" THEN user.props[key] ELSE Num(1)])

\* C7: validateUser checks nothing besides object-ness, the presence of id,
\* name, username and email, and the email pattern: its outcome is the one it
\* gives for the same presence and the same email alone, and with the four
\* fields present and a matching email it succeeds whatever id, name, username
\* and the other fields are.
C7_ChecksNothingElse ==
  (op = "validateUser" /\ arg.t = "object") =>
    /\ ret = validateUser(RequiredOnly(arg))
    /\ (/\ Set(UserRequiredFields) \subseteq DOMAIN arg.props
        /\ arg.props["email"].t = "string"
        /\ SplitsAsEmail(arg.props["email"].s, NotSpaceNotAt, NotSpaceNotAt))
         => ret = Return(Undefined)

\* a validateUser call that accepted a negative id, an empty name and a
\* malformed address
C7_Witness ==
  /\ op = "validateUser"
  /\ arg.t = "object"
  /\ Set(UserRequiredFields) \cup {"address"} \subseteq DOMAIN arg.props
  /\ arg.props["id"] = Num(-1)
  /\ arg.props["name"] = Lit("")
  /\ arg.props["address"] = Num(0)
  /\ ret = Return(Undefined)

\* C8: validateComment succeeds if and only if its argument is an object in
\* which id, postId, name, email and body are all present, whatever their
\* types and formats; when fields are absent it throws an error naming every
\* absent field.
C8_CommentPresenceOnly ==
  op = "validateComment" =>
    /\ ret.kind = "return" <=>
         (IsObject(arg) /\ Set(CommentRequiredFields) \subseteq KeysOf(arg))
    /\ ret.kind # "return" => (ret.kind = "throw" /\ ret.error = "Error")
    /\ (IsObject(arg) /\ Set(CommentRequiredFields) \ KeysOf(arg) # {}) =>
         NamesExactly(ret.message, CommentRequiredFields,
                      Set(CommentRequiredFields) \ KeysOf(arg))

\* a validateComment call that accepted a malformed email and a negative id
C8_Witness ==
  /\ op = "validateComment"
  /\ arg.t = "object"
  /\ Set(CommentRequiredFields) \subseteq DOMAIN arg.props
  /\ arg.props["email"] = Lit("x")
  /\ arg.props["id"] = Num(-1)
  /\ ret = Return(Undefined)

\* C9: each validator throws its descriptive error ('Post must be an object',
\* 'User must be an object', 'Comment must be an object') for every argument
\* that is not an object (null, undefined, a number, a string, a boolean); no
\* field is inspected before this check, so no other error arises.
C9_NonObjectsRejected ==
  ~IsObject(arg) =>
    /\ op = "validatePost" => ret = Throw(Chars("Post must be an object"))
    /\ op = "validateUser" => ret = Throw(Chars("User must be an object"))
    /\ op = "validateComment" => ret = Throw(Chars("Comment must be an object"))

\* a validatePost call on null
C9_Witness ==
  /\ op = "validatePost"
  /\ arg = Null
  /\ ret = Throw(Chars("Post must be an object"))

\* the overrides o leave the default username and email in place
NoIdentityOverride(o) ==
  o.t # "object" \/ {"username", "email"} \cap DOMAIN o.props = {}

\* C10: any two createUser() calls made without username/email overrides in
\* the same process, also within one millisecond or adjacent milliseconds,
\* return different usernames and different emails.
C10_DistinctIdentities ==
  (op = "createUser" /\ held # NoCall
     /\ NoIdentityOverride(arg) /\ NoIdentityOverride(held.arg))
    => /\ ret.value.props["username"] # held.value.props["username"]
       /\ ret.value.props["email"] # held.value.props["email"]

\* C11: generateId() returns an integer v with clock <= v <= clock + 999, clock
\* being the reading of Date.now() the call took.
C11_IdWithinRange ==
  op = "generateId" =>
    /\ Len(reads) = 2
    /\ reads[1].source = "Date.now"
    /\ ret.kind = "return"
    /\ ret.value.t = "number"
    /\ ret.value.k = "finite"
    /\ ret.value.n \in Int
    /\ reads[1].value <= ret.value.n
    /\ ret.value.n <= reads[1].value + 999

\* a generateId call that returned the clock reading plus 999
C11_Witness ==
  /\ op = "generateId"
  /\ ret.value = Num(reads[1].value + 999)

SixKinds ==
  {Lit("emptyPost"), Lit("missingRequiredFields"), Lit("invalidTypes"),
   Lit("oversizedData"), Lit("sqlInjection"), Lit("xssAttempt")}

\* C12: for every kind that is not one of the six names (any other string,
\* 'constructor' and 'toString' included, and undefined) createInvalidData
\* returns an empty object and never throws.
C12_UnknownKindEmpty ==
  (op = "createInvalidData" /\ arg \notin SixKinds) => ret = Return(Obj(EmptyProps))

\* C13: createInvalidData returns the fixed payload of each of the six kinds,
\* and validatePost rejects each of these payloads.
C13_FixedPayloads ==
  (op = "createInvalidData" /\ arg \in SixKinds) =>
    /\ ret.kind = "return"
    /\ ret.value.t = "object"
    /\ validatePost(ret.value).kind = "throw"
    /\ arg = Lit("emptyPost") => DOMAIN ret.value.props = {}
    /\ arg = Lit("missingRequiredFields") =>
         /\ DOMAIN ret.value.props = {"title"}
         /\ ret.value.props["title"] = Lit("Only Title")
    /\ arg = Lit("invalidTypes") =>
         /\ DOMAIN ret.value.props = {"userId", "title"}
         /\ ret.value.props["userId"].t = "string"
         /\ ret.value.props["title"].t = "number"
    /\ arg = Lit("oversizedData") =>
         /\ DOMAIN ret.value.props = {"title", "body"}
         /\ ret.value.props["title"].t = "string"
         /\ Len(ret.value.props["title"].s) = 1000
         /\ ret.value.props["body"].t = "string"
         /\ Len(ret.value.props["body"].s) = 10000
    /\ arg = Lit("sqlInjection") =>
         /\ DOMAIN ret.value.props = {"title", "body"}
         /\ ret.value.props["title"] = Lit("'; DROP TABLE posts; --")
         /\ ret.value.props["body"] = Lit("1 OR 1=1")
    /\ arg = Lit("xssAttempt") =>
         /\ DOMAIN ret.value.props = {"title", "body"}
         /\ Contains(ret.value.props["title"].s, Chars("<script>"))
         /\ Contains(ret.value.props["body"].s, Chars("onerror="))

\* a createInvalidData('oversizedData') call
C13_Witness ==
  /\ op = "createInvalidData"
  /\ arg = Lit("oversizedData")
  /\ Len(ret.value.props["body"].s) = 10000

DefaultAddress ==
  Obj([street |-> Lit("Test Street"), suite |-> Lit("Apt. 123"),
       city |-> Lit("Test City"), zipcode |-> Lit("12345"),
       geo |-> Obj([lat |-> Lit("0.0000"), lng |-> Lit("0.0000")])])

DefaultCompany ==
  Obj([name |-> Lit("Test Company"), catchPhrase |-> Lit("Testing excellence"),
       bs |-> Lit("quality assurance")])

\* C14: the factories merge shallowly.  A nested field (address, company) in
\* the overrides of createUser is in the result exactly the override's value,
\* with no default sub-field filled in; a default nested field not named in
\* the overrides is kept whole.
C14_ShallowMerge ==
  (op = "createUser" /\ arg.t = "object") =>
    /\ ret.value.props["address"] =
         (IF "address" \in DOMAIN arg.props THEN arg.props["address"]
          ELSE DefaultAddress)
    /\ ret.value.props["company"] =
         (IF "company" \in DOMAIN arg.props THEN arg.props["company"]
          ELSE DefaultCompany)

\* a createUser call that overrode address by an object holding only city, and
\* kept the default company
C14_Witness ==
  /\ op = "createUser"
  /\ arg.t = "object"
  /\ "address" \in DOMAIN arg.props
  /\ "company" \notin DOMAIN arg.props
  /\ DOMAIN ret.value.props["address"].props = {"city"}
  /\ ret.value.props["company"] = DefaultCompany

\* the own keys and values of the overrides (none when they are undefined)
Overridden(o) == IF o.t = "object" THEN o.props ELSE EmptyProps

\* C15: createComment(o) returns postId 1, name 'Test Comment', email
\* 'commenter<id>@example.com' (id the value of the one generateId() call made
\* in this call) and the default body, each replaced by o's value when o has
\* the key, plus every further key of o; it has no id unless o supplies one.
C15_CommentDefaults ==
  op = "createComment" =>
    LET o == Overridden(arg)
        id == reads[1].value + ((reads[2].value * 1000) \div RandomDen)
        expected ==
          [postId |-> Num(1),
           name |-> Lit("Test Comment"),
           email |-> Str(Chars("commenter") \o JSToString(Num(id))
                         \o Chars("@example.com")),
           body |-> Lit("This is a test comment with valuable feedback.")]
    IN /\ Len(reads) = 2
       /\ ret.kind = "return"
       /\ DOMAIN ret.value.props = DOMAIN expected \cup DOMAIN o
       /\ \A key \in DOMAIN ret.value.props :
            ret.value.props[key] = (IF key \in DOMAIN o THEN o[key] ELSE expected[key])
       /\ "id" \in DOMAIN ret.value.props <=> "id" \in DOMAIN o

\* a createComment call that overrode postId only, at random offset 999
C15_Witness ==
  /\ op = "createComment"
  /\ arg.t = "object"
  /\ DOMAIN arg.props = {"postId"}
  /\ ret.value.props["postId"] = Num(5)
  /\ "id" \notin DOMAIN ret.value.props
  /\ ret.value.props["email"] =
       Str(Chars("commenter") \o JSToString(Num(reads[1].value + 999))
           \o Chars("@example.com"))

\* the outcome of a call made alone, from its argument and its readings
OutcomeAlone(o, a, r) ==
  CASE o = "generateId" -> Return(Num(generateId(r[1].value, r[2].value)))
    [] o = "createPost" -> Return(createPost(a))
    [] o = "createUser" -> Return(createUser(a, r[1].value, r[2].value))
    [] o = "createComment" -> Return(createComment(a, r[1].value, r[2].value))
    [] o = "createInvalidData" -> Return(createInvalidData(a))
    [] o = "validatePost" -> validatePost(a)
    [] o = "validateUser" -> validateUser(a)
    [] o = "validateComment" -> validateComment(a)

HasPrefix(cs, prefix) ==
  Len(cs) >= Len(prefix) /\ SubSeq(cs, 1, Len(prefix)) = prefix

\* C17: validatePost reports the missing-fields error before any type error,
\* and among the type violations only the first in the order id, userId,
\* title, body.
C17_FailureOrder ==
  (op = "validatePost" /\ IsObject(arg)) =>
    IF Set(PostRequiredFields) \ KeysOf(arg) # {}
    THEN /\ ret.kind = "throw"
         /\ HasPrefix(ret.message, Chars("Post missing required fields: "))
    ELSE IF ~IsPositiveNumber(arg.props["id"])
    THEN ret = Throw(Chars("Post ID must be a positive number"))
    ELSE IF ~IsPositiveNumber(arg.props["userId"])
    THEN ret = Throw(Chars("User ID must be a positive number"))
    ELSE IF ~IsNonBlankString(arg.props["title"])
    THEN ret = Throw(Chars("Post title must be a non-empty string"))
    ELSE IF ~IsNonBlankString(arg.props["body"])
    THEN ret = Throw(Chars("Post body must be a non-empty string"))
    ELSE ret = Return(Undefined)

ValidatorCalls == {"validatePost", "validateUser", "validateComment"}
FactoryCalls == {"createPost", "createUser", "createComment"}

\* C18: a validator call, whether it returns or throws, leaves the validated
\* object with the same fields and values, and changes nothing else that
\* outlives the call: every object, the clock and what the caller holds are as
\* before.
C18_ValidatorFrame ==
  [][op' \in ValidatorCalls => (heap' = heap /\ now' = now /\ held' = held)]_vars

\* a validatePost call that accepted an object of the caller whose title has
\* blanks around it, the object being as the caller made it
C18_Witness ==
  /\ op = "validatePost"
  /\ arg.t = "ref"
  /\ ret = Return(Undefined)
  /\ heap[arg.a].props["title"] = Lit(" a ")

\* C19: a factory call leaves the overrides object (and every other object
\* there was) with the same keys and values, and returns an object that did
\* not exist before: it is neither the overrides nor a result of an earlier
\* call.
C19_FactoryOnlyAllocates ==
  [][op' \in FactoryCalls =>
       /\ \A a \in DOMAIN heap : a \in DOMAIN heap' /\ heap'[a] = heap[a]
       /\ ret'.kind = "return"
       /\ ret'.value.t = "ref"
       /\ ret'.value.a \notin DOMAIN heap
       /\ ret'.value.a \in DOMAIN heap']_vars

\* a createPost call given an object of the caller, after an earlier factory
\* call returned another object
C19_Witness ==
  /\ op = "createPost"
  /\ arg.t = "ref"
  /\ ret.value.t = "ref"
  /\ ret.value.a = 3
  /\ arg.a = 2
  /\ heap[2] = Obj([id |-> Num(1)])
  /\ heap[1] = createPost(Undefined)
  /\ heap[3].props["id"] = Num(1)

\* C20: for overrides without an id key, validatePost(createPost(o)),
\* validateUser(createUser(o)) and validateComment(createComment(o)) each fail
\* with the missing-fields error naming exactly id; for overrides that supply
\* only a positive numeric id all three succeed.
C20_FactoryOutputValidated ==
  LET o == Overridden(arg)
      outcome == CASE op = "createPost" -> validatePost(ret.value)
                   [] op = "createUser" -> validateUser(ret.value)
                   [] op = "createComment" -> validateComment(ret.value)
      required == CASE op = "createPost" -> PostRequiredFields
                    [] op = "createUser" -> UserRequiredFields
                    [] op = "createComment" -> CommentRequiredFields
  IN (op \in {"createPost", "createUser", "createComment"}
        /\ arg.t \in {"object", "undefined"}) =>
       /\ "id" \notin DOMAIN o =>
            /\ outcome.kind = "throw"
            /\ NamesExactly(outcome.message, required, {"id"})
       /\ (DOMAIN o = {"id"} /\ IsPositiveNumber(o["id"])) =>
            outcome = Return(Undefined)

\* a createUser call whose only override is id 1, whose result validateUser
\* accepts
C20_Witness ==
  /\ op = "createUser"
  /\ arg = Obj([id |-> Num(1)])
  /\ validateUser(ret.value) = Return(Undefined)

\* C21: in one createUser call whose overrides name neither username nor
\* email, both are built from the one id the call generated (username
\* 'testuser' + id, email 'test' + id + '@example.com'), and this email matches
\* the pattern validateUser enforces.
C21_OneIdForUsernameAndEmail ==
  (op = "createUser" /\ {"username", "email"} \cap DOMAIN Overridden(arg) = {}) =>
    LET id == reads[1].value + ((reads[2].value * 1000) \div RandomDen)
        email == Str(Chars("test") \o JSToString(Num(id)) \o Chars("@example.com"))
    IN /\ Len(reads) = 2
       /\ ret.value.props["username"] = Str(Chars("testuser") \o JSToString(Num(id)))
       /\ ret.value.props["email"] = email
       /\ SplitsAsEmail(email.s, NotSpaceNotAt, NotSpaceNotAt)
       /\ emailRegexTest(ret.value.props["email"])

\* a createUser call without overrides that generated id clock + 999
C21_Witness ==
  /\ op = "createUser"
  /\ arg = Undefined
  /\ ret.value.props["username"] =
       Str(Chars("testuser") \o JSToString(Num(reads[1].value + 999)))

\* C24: presence is key presence.  A required key holding undefined or null
\* is not reported missing: validateComment succeeds on an object whose five
\* required keys all hold null, and validatePost given a post whose id key
\* holds undefined (the other keys being there) fails with 'Post ID must be a
\* positive number'.
C24_KeyPresence ==
  /\ (op = "validateComment" /\ arg.t = "object"
        /\ DOMAIN arg.props = Set(CommentRequiredFields)
        /\ \A key \in DOMAIN arg.props : arg.props[key] \in {Null, Undefined}) =>
       ret = Return(Undefined)
  /\ (op = "validatePost" /\ arg.t = "object"
        /\ Set(PostRequiredFields) \subseteq DOMAIN arg.props
        /\ arg.props["id"] \in {Undefined, Null}) =>
       ret = Throw(Chars("Post ID must be a positive number"))
  /\ (op = "validateUser" /\ arg.t = "object"
        /\ Set(UserRequiredFields) \subseteq DOMAIN arg.props) =>
       (ret.kind = "throw" => ret.message = Chars("User email must be valid format"))

\* a validateComment call on an object whose five required keys hold null
C24_Witness ==
  /\ op = "validateComment"
  /\ arg = Obj([id |-> Null, postId |-> Null, name |-> Null, email |-> Null,
                body |-> Null])
  /\ ret = Return(Undefined)

\* C22: of two generateId calls whose clock readings are 1000 ms or more
\* apart, the later returns the strictly greater id.  (Calls less than 1000 ms
\* apart may return equal ids, or a smaller id later: C22_MayBeEqual,
\* C22_MayDecrease.)
C22_GreaterAfterOneSecond ==
  (op = "generateId" /\ held.kind = "id" /\ reads[1].value - held.clock >= 1000) =>
    ret.value.n > held.value.n

\* two calls exactly 1000 ms apart, the earlier with offset 999, the later
\* with offset 0
C22_Witness ==
  /\ op = "generateId"
  /\ held.kind = "id"
  /\ reads[1].value - held.clock = 1000
  /\ held.value.n = held.clock + 999
  /\ ret.value.n = reads[1].value

\* two calls less than 1000 ms apart that returned the same id
C22_MayBeEqual ==
  /\ op = "generateId"
  /\ held.kind = "id"
  /\ reads[1].value - held.clock \in 1..999
  /\ ret.value.n = held.value.n

\* two calls less than 1000 ms apart, the later returning the smaller id
C22_MayDecrease ==
  /\ op = "generateId"
  /\ held.kind = "id"
  /\ reads[1].value - held.clock \in 1..999
  /\ ret.value.n < held.value.n

\* C23: createPost and createInvalidData read neither the clock nor the random
\* generator: a second run with equal arguments, at another time and with
\* another random value, returns an equal result.  Two runs of createUser or
\* createComment with equal arguments differ at most in the username and email
\* the overrides do not name.
C23_RunsAgree ==
  (held.kind = "run" /\ (now > held.clock \/ reads # held.reads)) =>
    /\ op \in {"createPost", "createInvalidData"} =>
         /\ reads = <<>>
         /\ held.reads = <<>>
         /\ ret.value = held.value
    /\ op \in {"createUser", "createComment"} =>
         /\ DOMAIN ret.value.props = DOMAIN held.value.props
         /\ \A key \in DOMAIN ret.value.props :
              (key \notin {"username", "email"} \/ key \in DOMAIN Overridden(arg)) =>
                ret.value.props[key] = held.value.props[key]

\* a createPost call with a title override, run again after the clock moved
C23_Witness ==
  /\ op = "createPost"
  /\ held.kind = "run"
  /\ now > held.clock
  /\ arg.t = "object"
  /\ "title" \in DOMAIN arg.props
  /\ ret.value = held.value

\* two runs of createUser() whose results differ in username and email
C23_UserRunsDiffer ==
  /\ op = "createUser"
  /\ held.kind = "run"
  /\ arg = Undefined
  /\ ret.value.props["email"] # held.value.props["email"]
  /\ ret.value.props["username"] # held.value.props["username"]

\* the value an object has, its nested objects read through
RECURSIVE Resolve(_, _)
Resolve(h, v) ==
  IF v.t = "ref"
  THEN Obj([key \in DOMAIN h[v.a].props |-> Resolve(h, h[v.a].props[key])])
  ELSE v

\* C25: default values are fresh per call.  Whatever factory calls and writes
\* of the caller to returned objects (nested ones included) came before, a
\* createUser call returns the original default address and company wherever
\* the overrides name none, in objects no earlier object shares, and
\* createInvalidData returns the fixed payload of the kind in a new object.
C25_DefaultsFresh ==
  [][/\ op' = "createUser" =>
          LET result == heap'[ret'.value.a]
              o == Overridden(Deref(heap, arg'))
          IN /\ \A key \in {"address", "company"} \ DOMAIN o :
                  /\ Resolve(heap', result.props[key]) =
                       (IF key = "address" THEN DefaultAddress ELSE DefaultCompany)
                  /\ Reach(heap', result.props[key]) \cap DOMAIN heap = {}
             /\ result.props["name"] = Lit("Test User")
             /\ result.props["phone"] = Lit("1-234-567-8901")
             /\ result.props["website"] = Lit("testuser.com")
             /\ ret'.value.a \notin DOMAIN heap
     /\ (op' = "createInvalidData" /\ arg' = Lit("invalidTypes")) =>
          /\ Resolve(heap', ret'.value) =
               Obj([userId |-> Lit("not-a-number"), title |-> Num(123)])
          /\ ret'.value.a \notin DOMAIN heap]_vars

\* a createUser() call made after the caller moved the city of the address of
\* an earlier createUser result: the new result has the default city
C25_Witness ==
  /\ op = "createUser"
  /\ arg = Undefined
  /\ \E a \in DOMAIN heap :
       /\ a \notin Reach(heap, ret.value)
       /\ "street" \in DOMAIN heap[a].props
       /\ heap[a].props["city"] = Lit("Moved")
  /\ Resolve(heap, ret.value).props["address"].props["city"] = Lit("Test City")

\* C26: nested override values are shared, not copied: every field of the
\* result that the overrides supply holds the very same object (or value) the
\* overrides hold, so a later write to that object shows through the returned
\* payload, and two payloads built from the same overrides share it.
C26_NestedShared ==
  [][(op' = "createUser" /\ arg'.t = "ref") =>
       \A key \in DOMAIN heap[arg'.a].props :
         /\ key \in DOMAIN heap'[ret'.value.a].props
         /\ heap'[ret'.value.a].props[key] = heap[arg'.a].props[key]]_vars

\* two payloads built from the same overrides, whose address is the object the
\* overrides hold; the caller moved its city after the first was returned
C26_Witness ==
  /\ op = "createUser"
  /\ arg.t = "ref"
  /\ heap[arg.a].props["address"].t = "ref"
  /\ heap[ret.value.a].props["address"] = heap[arg.a].props["address"]
  /\ heap[heap[arg.a].props["address"].a].props["city"] = Lit("Moved")
  /\ \E p \in DOMAIN heap :
       /\ p # ret.value.a
       /\ {"name", "address"} \subseteq DOMAIN heap[p].props
       /\ heap[p].props["address"] = heap[arg.a].props["address"]

\* C28: a GET /posts/1 request issued with a 100 ms timeout always ends in a
\* rejection, never in a resolved response, whatever the latency of the
\* server's reply.
C28_AlwaysRejected ==
  request.state # "resolved"

\* C29: when CI is set a failing test is re-run at most 2 more times (at most
\* 3 attempts, stopping at the first pass); when CI is not set a test is never
\* re-run (exactly 1 attempt).
C29_RetryPolicy ==
  [][\A t \in 1..NumTests :
       /\ ci' # Undefined => tests'[t].attempts <= 3
       /\ ci' = Undefined => tests'[t].attempts <= 1
       /\ (ci' = Undefined /\ tests'[t].status \in {"passed", "failed"}) =>
            tests'[t].attempts = 1
       /\ tests[t].status = "passed" => tests'[t] = tests[t]
       /\ tests[t].status = "failed" => tests'[t] = tests[t]]_vars

\* with CI set, a test that failed twice and passed at its third attempt
C29_Witness ==
  /\ ci = Lit("true")
  /\ \E t \in 1..NumTests : tests[t] = [status |-> "passed", attempts |-> 3]

C27_WorkflowsIsolated ==
  /\ \A i \in 1..Workflows :
       /\ flows[i].pc \in {"awaitPost", "awaitComment", "done"} =>
            /\ flows[i].user.t = "object"
            /\ flows[i].postData.props["userId"] = flows[i].user.props["id"]
       /\ flows[i].pc \in {"awaitComment", "done"} =>
            /\ flows[i].post.t = "object"
            /\ flows[i].commentData.props["postId"] = flows[i].post.props["id"]
       /\ flows[i].pc \in {"created", "awaitUser"} =>
            flows[i].postData = Undefined /\ flows[i].commentData = Undefined
       /\ flows[i].pc = "awaitPost" => flows[i].commentData = Undefined
       /\ flows[i].pc = "done" =>
            flows[i].result = Obj([user |-> flows[i].user, post |-> flows[i].post,
                                   comment |-> flows[i].comment])
  /\ joined.state = "resolved" =>
       /\ \A i \in 1..Workflows : flows[i].pc = "done"
       /\ DOMAIN joined.results = 1..5
       /\ \A i \in 1..Workflows : joined.results[i] = flows[i].result

\* the join resolved with five results, the first workflow's post having id
\* 102 and the second's 101
C27_Witness ==
  /\ joined.state = "resolved"
  /\ joined.results[1].props["post"].props["id"] = Num(102)
  /\ joined.results[2].props["post"].props["id"] = Num(101)
  /\ joined.results[1].props["comment"].props["postId"] = Num(102)
  /\ joined.results[5].props["post"].props["userId"] = Num(5)

============================================================================
